---- MODULE Spec2Model ----
(***************************************************************************)
(* State-machine model of two LBANN layers:                                *)
(*   - embedding_layer      (include/lbann/layers/learning/embedding.hpp)  *)
(*   - cross_entropy_layer  (include/lbann/layers/loss/cross_entropy.hpp)  *)
(*                                                                         *)
(* One embedding layer object and one cross entropy layer object are       *)
(* modelled.  The embedding layer walks through the layer-graph protocol:  *)
(* construction, optional user-supplied weights, setup_dims, setup_data,   *)
(* one fp_compute.  A weights object is a record; the objects live in          *)
(* weights_store and are referred to by their position in it (the model of *)
(* a shared_ptr).  Matrices are functions column -> row -> value with      *)
(* 0-based indices, as in Elemental.                                       *)
(***************************************************************************)
EXTENDS Integers, Sequences, FiniteSets, TLC

(***************************************************************************)
(* Bounds of the model.                                                    *)
(***************************************************************************)
MaxNumEmbeddings == 2
MaxEmbeddingDim == 2
MaxUserWeights == 2

INT_MAX == 2147483647

VARIABLES
  pc,                  \* position of the embedding layer in the setup protocol
  m_name,              \* Layer::m_name of the embedding layer
  layer_type,          \* TensorDataType of the embedding layer
  m_num_embeddings,
  m_embedding_dim,
  m_padding_idx,
  input_dims,          \* Layer input dims (sequence of int)
  output_dims,         \* Layer output dims (sequence of int)
  m_weights,           \* the layer's weights list: positions in weights_store
  weights_store,       \* every weights object that exists
  model_weights,       \* weights registered with the model (positions)
  err,                 \* the exception raised by the last handler, or NoError
  zeroed,              \* history: columns that were viewed and passed to El::Zero
  oob_write,           \* history: El::Zero was applied to a view outside the matrix
  num_weights_at_entry,\* history: num_weights() when setup_data was entered
  output,              \* result of the last fp_compute: [input, columns]
  ce                   \* the cross entropy layer object

vars == <<pc, m_name, layer_type, m_num_embeddings, m_embedding_dim,
          m_padding_idx, input_dims, output_dims, m_weights, weights_store,
          model_weights, err, zeroed, oob_write, num_weights_at_entry,
          output, ce>>

emb_config == <<m_name, layer_type, m_num_embeddings, m_embedding_dim, m_padding_idx>>

emb_vars == <<pc, m_name, layer_type, m_num_embeddings, m_embedding_dim,
              m_padding_idx, input_dims, output_dims, m_weights, weights_store,
              model_weights, err, zeroed, oob_write, num_weights_at_entry,
              output>>

(***************************************************************************)
(* Element types.  float and double always exist; "cpu_fp16" and "fp16"    *)
(* are the half types; "other" stands for any element type the padding     *)
(* code has no dynamic_cast branch for.                                    *)
(***************************************************************************)
LayerTypes == {"float", "double"}

WeightsTypes == {"float", "double", "cpu_fp16", "fp16", "other"}

LayerNames == {"emb"}

NoError == [kind |-> "none"]

NoOutput == [input |-> <<>>, columns |-> <<>>]

\* matrix entries: zero and a non-zero value
Values == {0, 1}

(***************************************************************************)
(* static_cast<int>(size_t) and static_cast<El::Int>(size_t): the value    *)
(* modulo 2^32 read as a signed 32-bit integer.  Every size the model      *)
(* checker can represent is at most INT_MAX, where the cast keeps the      *)
(* value; larger sizes would wrap to a negative number.                    *)
(***************************************************************************)
StaticCastInt(x) ==
  IF x <= INT_MAX THEN x ELSE (x - INT_MAX) - INT_MAX - 2

(***************************************************************************)
(* embedding_layer(num_embeddings, embedding_dim, padding_idx)             *)
(***************************************************************************)
\* not set (-1), every column, and one index past the last column
PaddingIndices == -1..MaxNumEmbeddings

EmbeddingCtor(num_embeddings, embedding_dim, padding_idx) ==
  [num_embeddings |-> num_embeddings,
   embedding_dim |-> embedding_dim,
   padding_idx |-> padding_idx]

embedding_layer ==
  /\ pc = "none"
  /\ \E n \in 0..MaxNumEmbeddings, d \in 0..MaxEmbeddingDim,
        p \in PaddingIndices, t \in LayerTypes, nm \in LayerNames :
       LET c == EmbeddingCtor(n, d, p) IN
         /\ m_num_embeddings' = c.num_embeddings
         /\ m_embedding_dim' = c.embedding_dim
         /\ m_padding_idx' = c.padding_idx
         /\ layer_type' = t
         /\ m_name' = nm
  /\ pc' = "constructed"
  /\ UNCHANGED <<input_dims, output_dims, m_weights, weights_store,
                 model_weights, err, zeroed, oob_write, num_weights_at_entry,
                 output, ce>>

(***************************************************************************)
(* embedding_layer(): the default constructor delegates with (0, 0, 0).    *)
(***************************************************************************)
embedding_layer_default ==
  /\ pc = "none"
  /\ \E t \in LayerTypes, nm \in LayerNames :
       LET c == EmbeddingCtor(0, 0, 0) IN
         /\ m_num_embeddings' = c.num_embeddings
         /\ m_embedding_dim' = c.embedding_dim
         /\ m_padding_idx' = c.padding_idx
         /\ layer_type' = t
         /\ m_name' = nm
  /\ pc' = "constructed"
  /\ UNCHANGED <<input_dims, output_dims, m_weights, weights_store,
                 model_weights, err, zeroed, oob_write, num_weights_at_entry,
                 output, ce>>

(***************************************************************************)
(* setup_dims: the base class fixes the input dims from the parent layer   *)
(* (an input of the step); the layer then appends embedding_dim to a copy. *)
(***************************************************************************)
ParentDims == {<<1>>, <<2>>, <<1, 2>>}

base_setup_dims(parent_dims) ==
  [input_dims |-> parent_dims, output_dims |-> parent_dims]

\* mutant: the embedding dimension is put in front of the input dims
setup_dims_output_front(dims, embedding_dim) ==
  <<StaticCastInt(embedding_dim)>> \o dims

setup_dims_output(dims, embedding_dim) ==
  Append(dims, StaticCastInt(embedding_dim))

setup_dims ==
  /\ pc = "constructed"
  /\ \E parent_dims \in ParentDims :
       LET base == base_setup_dims(parent_dims) IN
         /\ input_dims' = base.input_dims
         /\ output_dims' = setup_dims_output(base.input_dims, m_embedding_dim)
  /\ pc' = "dims_done"
  /\ UNCHANGED <<emb_config, m_weights, weights_store, model_weights, err,
                 zeroed, oob_write, num_weights_at_entry, output, ce>>

(***************************************************************************)
(* Weights objects.  A weights object that has not been set up holds an    *)
(* empty matrix.  The user may hand the layer weights of any element type, *)
(* either fresh (no dims yet) or carrying other dims, before setup.        *)
(***************************************************************************)
EmptyMatrix == <<>>

UserOptimizer == [created_by |-> "user", type |-> "float"]

UserWeights(dtype, fresh) ==
  [name |-> "user_weights",
   dtype |-> dtype,
   initializer |-> IF fresh THEN "nullptr" ELSE "constant",
   optimizer |-> UserOptimizer,
   height_dims |-> IF fresh THEN <<>> ELSE <<3>>,
   width_dims |-> IF fresh THEN <<>> ELSE <<1>>,
   dist |-> [colDist |-> "MC", rowDist |-> "MR", device |-> "CPU"],
   values |-> EmptyMatrix]

UserWeightsChoices ==
  {UserWeights("float", TRUE), UserWeights("double", FALSE),
   UserWeights("cpu_fp16", TRUE), UserWeights("fp16", FALSE),
   UserWeights("other", TRUE), UserWeights("other", FALSE)}

\* Layer::add_weights / model::add_weights called by the user before setup
add_user_weights ==
  /\ pc = "constructed"
  /\ Len(m_weights) < MaxUserWeights
  /\ \E w \in UserWeightsChoices :
       /\ weights_store' = Append(weights_store, w)
       /\ m_weights' = Append(m_weights, Len(weights_store) + 1)
       /\ model_weights' = model_weights \cup {Len(weights_store) + 1}
  /\ UNCHANGED <<pc, emb_config, input_dims, output_dims, err, zeroed,
                 oob_write, num_weights_at_entry, output, ce>>

has_weights(lw) == Len(lw) > 0

num_weights(lw) == Len(lw)

\* model::create_optimizer<TensorDataType>()
create_optimizer(t) == [created_by |-> "model", type |-> t]

\* mutant: the default weights keep the layer's own name
ConstructDefaultWeights_unnamed(name, t) ==
  [name |-> name,
   dtype |-> t,
   initializer |-> "normal(0,1)",
   optimizer |-> create_optimizer(t),
   height_dims |-> <<>>,
   width_dims |-> <<>>,
   dist |-> [colDist |-> "MC", rowDist |-> "MR", device |-> "CPU"],
   values |-> EmptyMatrix]

\* setup_data, "Construct default weights if needed"
ConstructDefaultWeights(name, t) ==
  [name |-> name \o "_weights",
   dtype |-> t,
   initializer |-> "normal(0,1)",
   optimizer |-> create_optimizer(t),
   height_dims |-> <<>>,
   width_dims |-> <<>>,
   dist |-> [colDist |-> "MC", rowDist |-> "MR", device |-> "CPU"],
   values |-> EmptyMatrix]

\* mutant: only a layer without weights is rejected
InvalidNumWeights_empty(lw) == num_weights(lw) = 0

InvalidNumWeights(lw) == num_weights(lw) /= 1

NumWeightsError(type, name, found) ==
  [kind |-> "invalid number of weights",
   layer_type |-> type,
   layer_name |-> name,
   expected |-> 1,
   found |-> found]

(***************************************************************************)
(* weights::set_dims, weights::set_matrix_distribution, weights::setup.    *)
(* setup allocates the height x width matrix and lets the initializer fill *)
(* it: a null initializer leaves zeros, any other one may produce any      *)
(* values.                                                                 *)
(***************************************************************************)
set_dims(w, height_dims, width_dims) ==
  [w EXCEPT !.height_dims = height_dims, !.width_dims = width_dims]

set_matrix_distribution(w, dist) == [w EXCEPT !.dist = dist]

AllMatrices(height, width) == [0..(width - 1) -> [0..(height - 1) -> Values]]

ZeroVector(height) == [r \in 0..(height - 1) |-> 0]

Fills(w, height, width) ==
  IF w.initializer = "nullptr"
    THEN {[c \in 0..(width - 1) |-> ZeroVector(height)]}
    ELSE AllMatrices(height, width)

setup(w, fill) == [w EXCEPT !.values = fill]

PrevActivationsDist == [colDist |-> "STAR", rowDist |-> "VC", device |-> "CPU"]

\* mutant: the weights are given the PyTorch (untransposed) dims
InitializeDictionary_transposed(w, embedding_dim, num_embeddings, prev_dist, fill) ==
  LET matrix_dist == [prev_dist EXCEPT !.colDist = "STAR", !.rowDist = "STAR"]
      w1 == set_dims(w, <<num_embeddings>>, <<embedding_dim>>)
      w2 == set_matrix_distribution(w1, matrix_dist)
  IN setup(w2, fill)

\* setup_data, "Initialize dictionary"
InitializeDictionary(w, embedding_dim, num_embeddings, prev_dist, fill) ==
  LET matrix_dist == [prev_dist EXCEPT !.colDist = "STAR", !.rowDist = "STAR"]
      w1 == set_dims(w, <<embedding_dim>>, <<num_embeddings>>)
      w2 == set_matrix_distribution(w1, matrix_dist)
  IN setup(w2, fill)

\* mutant: the lower bound of the padding index is not tested
PaddingGuard_nolower(padding_idx, embedding_dim) ==
  padding_idx < StaticCastInt(embedding_dim)

\* setup_data, the condition guarding "Zero out embedding vector for padding index"
PaddingGuard(padding_idx, embedding_dim) ==
  0 <= padding_idx /\ padding_idx < StaticCastInt(embedding_dim)

\* element types with a dynamic_cast branch (both half types compiled in)
SupportedTypes == {"float", "double", "cpu_fp16", "fp16"}

TypeError == [kind |-> "Could not determine type for embedding"]

ViewRangeError == [kind |-> "El::View: submatrix out of range"]

\* El::View(pad, values, El::ALL, El::IR(col)); El::Zero(pad)
ZeroColumn(values, col) ==
  [c \in DOMAIN values |->
     IF c = col THEN [r \in DOMAIN values[c] |-> 0] ELSE values[c]]

(***************************************************************************)
(* The padding block of setup_data.  A view of a column outside the matrix *)
(* is undefined behaviour in Elemental: a checked build throws, an         *)
(* unchecked build writes outside the matrix (ub picks the outcome).       *)
(***************************************************************************)
ZeroPadding(w, padding_idx, embedding_dim, ub) ==
  IF ~PaddingGuard(padding_idx, embedding_dim)
    THEN [w |-> w, err |-> NoError, zeroed |-> {}, oob |-> FALSE]
  ELSE IF w.dtype \notin SupportedTypes
    THEN [w |-> w, err |-> TypeError, zeroed |-> {}, oob |-> FALSE]
  ELSE IF padding_idx \in DOMAIN w.values
    THEN [w |-> [w EXCEPT !.values = ZeroColumn(w.values, padding_idx)],
          err |-> NoError, zeroed |-> {padding_idx}, oob |-> FALSE]
  ELSE IF ub = "throw"
    THEN [w |-> w, err |-> ViewRangeError, zeroed |-> {}, oob |-> FALSE]
    ELSE [w |-> w, err |-> NoError, zeroed |-> {padding_idx}, oob |-> TRUE]

(***************************************************************************)
(* embedding_layer::setup_data                                             *)
(***************************************************************************)
setup_data ==
  /\ pc = "dims_done"
  /\ num_weights_at_entry' = num_weights(m_weights)
  /\ LET need_default == ~has_weights(m_weights)
         store1 == IF need_default
                     THEN Append(weights_store,
                                 ConstructDefaultWeights(m_name, layer_type))
                     ELSE weights_store
         lw1 == IF need_default THEN Append(m_weights, Len(store1)) ELSE m_weights
         mw1 == IF need_default THEN model_weights \cup {Len(store1)}
                                ELSE model_weights
     IN /\ m_weights' = lw1
        /\ model_weights' = mw1
        /\ IF InvalidNumWeights(lw1)
             THEN /\ err' = NumWeightsError("embedding", m_name, num_weights(lw1))
                  /\ pc' = "error"
                  /\ weights_store' = store1
                  /\ UNCHANGED <<zeroed, oob_write>>
             ELSE \E fill \in Fills(store1[lw1[1]], m_embedding_dim, m_num_embeddings),
                     ub \in {"throw", "write"} :
                    LET id == lw1[1]
                        embeddings == InitializeDictionary(store1[id],
                                        m_embedding_dim, m_num_embeddings,
                                        PrevActivationsDist, fill)
                        r == ZeroPadding(embeddings, m_padding_idx,
                                         m_embedding_dim, ub)
                    IN /\ weights_store' = [store1 EXCEPT ![id] = r.w]
                       /\ err' = r.err
                       /\ pc' = IF r.err = NoError THEN "data_done" ELSE "error"
                       /\ zeroed' = r.zeroed
                       /\ oob_write' = r.oob
  /\ UNCHANGED <<emb_config, input_dims, output_dims, output, ce>>

(***************************************************************************)
(* embedding_layer::fp_compute: each input value is an index; an index in  *)
(* range yields its embedding vector, any other index a vector of zeros.   *)
(***************************************************************************)
InputValues == -1..MaxNumEmbeddings

RECURSIVE get_input_size(_)
get_input_size(dims) ==
  IF dims = <<>> THEN 1 ELSE Head(dims) * get_input_size(Tail(dims))

\* one sample of the mini-batch: an index per entry of the input tensor
Inputs(dims) == [1..get_input_size(dims) -> InputValues]

\* mutant: an index equal to num_embeddings is clamped to the last column
EmbeddingLookup_clamp(values, embedding_dim, num_embeddings, ind) ==
  IF 0 <= ind /\ ind < num_embeddings
    THEN values[ind]
    ELSE IF ind = num_embeddings /\ num_embeddings > 0
      THEN values[num_embeddings - 1]
      ELSE ZeroVector(embedding_dim)

EmbeddingLookup(values, embedding_dim, num_embeddings, ind) ==
  IF 0 <= ind /\ ind < num_embeddings
    THEN values[ind]
    ELSE ZeroVector(embedding_dim)

fp_compute ==
  /\ pc = "data_done"
  /\ pc' = "fp_done"
  /\ \E x \in Inputs(input_dims) :
       output' = [input |-> x,
                  columns |-> [k \in 1..Len(x) |->
                     EmbeddingLookup(weights_store[m_weights[1]].values,
                                     m_embedding_dim, m_num_embeddings, x[k])]]
  /\ UNCHANGED <<emb_config, input_dims, output_dims, m_weights,
                 weights_store, model_weights, err, zeroed, oob_write,
                 num_weights_at_entry, ce>>

(***************************************************************************)
(* cross_entropy_layer                                                     *)
(***************************************************************************)
NoLayer ==
  [constructed |-> FALSE, by |-> "none", comm |-> "nullptr",
   m_use_labels |-> FALSE, m_expected_num_parent_layers |-> 0]

\* Layer base constructor: a layer expects one parent unless it says otherwise
LayerBaseCtor(comm) ==
  [constructed |-> TRUE, by |-> "none", comm |-> comm,
   m_use_labels |-> FALSE, m_expected_num_parent_layers |-> 1]

\* mutant: the constructor body does not set the number of parents
CrossEntropyCtor_oneparent(comm, use_labels) ==
  [LayerBaseCtor(comm) EXCEPT !.m_use_labels = use_labels]

\* cross_entropy_layer(lbann_comm* comm, bool use_labels)
CrossEntropyCtor(comm, use_labels) ==
  [LayerBaseCtor(comm) EXCEPT !.m_use_labels = use_labels,
                              !.m_expected_num_parent_layers = 2]

\* cross_entropy_layer(): used by cereal when deserializing
CrossEntropyDefaultCtor == CrossEntropyCtor("nullptr", FALSE)

cross_entropy_layer ==
  /\ ~ce.constructed
  /\ \E comm \in {"comm"}, use_labels \in BOOLEAN :
       ce' = [CrossEntropyCtor(comm, use_labels) EXCEPT !.by = "public"]
  /\ UNCHANGED emb_vars

cross_entropy_layer_default ==
  /\ ~ce.constructed
  /\ ce' = [CrossEntropyDefaultCtor EXCEPT !.by = "default"]
  /\ UNCHANGED emb_vars

(***************************************************************************)
(* Specification                                                           *)
(***************************************************************************)
Init ==
  /\ pc = "none"
  /\ m_name = ""
  /\ layer_type = "float"
  /\ m_num_embeddings = 0
  /\ m_embedding_dim = 0
  /\ m_padding_idx = 0
  /\ input_dims = <<>>
  /\ output_dims = <<>>
  /\ m_weights = <<>>
  /\ weights_store = <<>>
  /\ model_weights = {}
  /\ err = NoError
  /\ zeroed = {}
  /\ oob_write = FALSE
  /\ num_weights_at_entry = -1
  /\ output = NoOutput
  /\ ce = NoLayer

Next ==
  \/ embedding_layer
  \/ embedding_layer_default
  \/ add_user_weights
  \/ setup_dims
  \/ setup_data
  \/ fp_compute
  \/ cross_entropy_layer
  \/ cross_entropy_layer_default

Spec == Init /\ [][Next]_vars

(***************************************************************************)
(* Properties                                                              *)
(***************************************************************************)
TypeOK ==
  /\ pc \in {"none", "constructed", "dims_done", "data_done", "fp_done", "error"}
  /\ m_num_embeddings \in 0..MaxNumEmbeddings
  /\ m_embedding_dim \in 0..MaxEmbeddingDim
  /\ m_padding_idx \in PaddingIndices
  /\ \A i \in 1..Len(m_weights) : m_weights[i] \in 1..Len(weights_store)
  /\ model_weights \subseteq 1..Len(weights_store)
  /\ \A i \in 1..Len(weights_store) : weights_store[i].dtype \in WeightsTypes

\* setup_data has returned without an error
SetupDone == pc \in {"data_done", "fp_done"}

\* the weights object setup_data works on
Embeddings == weights_store[m_weights[1]]

IsZeroVector(v, height) == DOMAIN v = 0..(height - 1) /\ \A r \in DOMAIN v : v[r] = 0

\* a step of setup_data: the only step that leaves "dims_done"
SetupDataStep == pc = "dims_done" /\ pc' /= "dims_done"

\* C1: after a successful setup_data with a padding index p, 0 <= p <
\* num_embeddings, column p of the weights matrix is all zeros, whatever the
\* relation between num_embeddings and embedding_dim.
C1_PaddingColumnIsZero ==
  (SetupDone /\ 0 <= m_padding_idx /\ m_padding_idx < m_num_embeddings)
    => IsZeroVector(Embeddings.values[m_padding_idx], m_embedding_dim)

\* C2: setup_dims sets the output dims to the input dims with embedding_dim
\* appended as the last dimension, and leaves the input dims as the parent
\* layer gave them.
C2_OutputDimsAppendEmbeddingDim ==
  pc \in {"dims_done", "data_done", "fp_done", "error"}
    => /\ output_dims = input_dims \o <<m_embedding_dim>>
       /\ input_dims \in ParentDims

C2_Witness ==
  /\ pc = "dims_done"
  /\ input_dims = <<1, 2>>
  /\ m_embedding_dim = 2
  /\ output_dims = <<1, 2, 2>>

\* C3: after a successful setup_data the layer's single weights object is an
\* embedding_dim x num_embeddings matrix, also when user-supplied weights had
\* other dims before.
C3_WeightsDims ==
  SetupDone
    => /\ Len(m_weights) = 1
       /\ Embeddings.height_dims = <<m_embedding_dim>>
       /\ Embeddings.width_dims = <<m_num_embeddings>>
       /\ DOMAIN Embeddings.values = 0..(m_num_embeddings - 1)
       /\ \A c \in DOMAIN Embeddings.values :
            DOMAIN Embeddings.values[c] = 0..(m_embedding_dim - 1)

C3_Witness ==
  /\ pc = "data_done"
  /\ num_weights_at_entry = 1
  /\ Embeddings.initializer = "constant"
  /\ m_embedding_dim = 2
  /\ m_num_embeddings = 2
  /\ Embeddings.height_dims = <<2>>

\* C4: in fp_compute every out-of-range index (less than 0 or at least
\* num_embeddings) yields a vector of zeros and every in-range index i yields
\* column i of the weights matrix.
C4_ForwardLookup ==
  \A k \in DOMAIN output.input :
    LET ind == output.input[k] IN
      /\ (ind < 0 \/ ind >= m_num_embeddings)
           => IsZeroVector(output.columns[k], m_embedding_dim)
      /\ (0 <= ind /\ ind < m_num_embeddings)
           => output.columns[k] = Embeddings.values[ind]

C4_Witness ==
  /\ pc = "fp_done"
  /\ m_num_embeddings = MaxNumEmbeddings
  /\ m_embedding_dim > 0
  /\ Len(output.input) = 2
  /\ output.input[1] = m_num_embeddings
  /\ output.input[2] = m_num_embeddings - 1
  /\ \E r \in DOMAIN output.columns[2] : output.columns[2][r] /= 0

\* C5: a cross_entropy_layer built by the public constructor or by the default
\* constructor expects exactly two parent layers, for either use_labels.
C5_TwoParents ==
  ce.constructed => ce.m_expected_num_parent_layers = 2

C5_Witness ==
  /\ ce.constructed
  /\ ce.by = "default"
  /\ ce.m_use_labels = FALSE
  /\ ce.m_expected_num_parent_layers = 2

\* C6: setup_data on a layer without weights creates exactly one default
\* weights object named "<layer name>_weights" with a normal(0,1) initializer
\* and a model-created optimizer, registered with the layer and the model; on a
\* layer with weights it creates none; a successful return leaves exactly one
\* weights object in the layer.
C6_DefaultWeights ==
  [][SetupDataStep =>
       /\ (Len(m_weights) = 0) =>
            /\ Len(weights_store') = Len(weights_store) + 1
            /\ m_weights' = <<Len(weights_store')>>
            /\ model_weights' = model_weights \cup {Len(weights_store')}
            /\ weights_store'[Len(weights_store')].name = m_name \o "_weights"
            /\ weights_store'[Len(weights_store')].initializer = "normal(0,1)"
            /\ weights_store'[Len(weights_store')].optimizer =
                 [created_by |-> "model", type |-> layer_type]
       /\ (Len(m_weights) > 0) =>
            /\ Len(weights_store') = Len(weights_store)
            /\ m_weights' = m_weights
            /\ model_weights' = model_weights
       /\ (pc' = "data_done") => Len(m_weights') = 1]_vars

C6_Witness ==
  /\ pc = "data_done"
  /\ num_weights_at_entry = 0
  /\ m_weights = <<1>>
  /\ model_weights = {1}
  /\ Embeddings.name = "emb_weights"

\* C7: setup_data on a layer holding two or more weights raises the error
\* "expected 1, found k" before it changes the dims, the distribution or the
\* values of any weights object and before any padding column is zeroed.
C7_InvalidNumWeights ==
  [][(SetupDataStep /\ Len(m_weights) >= 2) =>
       /\ pc' = "error"
       /\ err'.kind = "invalid number of weights"
       /\ err'.expected = 1
       /\ err'.found = Len(m_weights)
       /\ weights_store' = weights_store
       /\ zeroed' = zeroed
       /\ oob_write' = oob_write]_vars

C7_Witness ==
  /\ pc = "error"
  /\ num_weights_at_entry = 2
  /\ err.kind = "invalid number of weights"
  /\ err.found = 2
  /\ \E i \in 1..Len(weights_store) : weights_store[i].height_dims = <<3>>

\* C8: with a negative padding index setup_data zeroes no column and never
\* raises "Could not determine type for embedding", whatever the element type;
\* that error is raised only with a padding index that is set and a weights
\* element type outside the supported ones.
C8_NoPaddingNoTypeError ==
  /\ ((SetupDone \/ pc = "error") /\ m_padding_idx < 0)
       => (zeroed = {} /\ ~oob_write /\ err /= TypeError)
  /\ (err = TypeError)
       => /\ m_padding_idx >= 0
          /\ Embeddings.dtype \notin {"float", "double", "cpu_fp16", "fp16"}

C8_Witness ==
  /\ pc = "data_done"
  /\ m_padding_idx = -1
  /\ m_embedding_dim > 0
  /\ m_num_embeddings > 0
  /\ Embeddings.dtype = "other"
  /\ \E c \in DOMAIN Embeddings.values :
       \E r \in DOMAIN Embeddings.values[c] : Embeddings.values[c][r] /= 0

====
